---------------------------- MODULE Spec2Model ----------------------------
(***************************************************************************)
(* Epitope mapping (epitope_mapping_df.py): the island partitioner         *)
(* assignResponseIslands, the shared-rule predicates identicalRule and     *)
(* overlapRule, and the minimal explaining-set search findEpitopes.        *)
(*                                                                         *)
(* Python lists are 0-based and TLA+ sequences 1-based: a response index   *)
(* i of the code is position i+1 here.  Island and epitope numbers are     *)
(* kept as the code prints them (0-based) wherever they are formatted.     *)
(* A residue string is a sequence of one-character strings.                *)
(***************************************************************************)
EXTENDS Integers, Sequences, FiniteSets, TLC

VARIABLES
    pc,             \* position of the running function
    responses,      \* the responses DataFrame: a sequence of rows
    ri,             \* assignResponseIslands: position of the next response
    islandList,     \* assignResponseIslands: lists of row positions
    islandColumn,   \* assignResponseIslands: the IslandID column returned
    rule,           \* sharedRule and its **kwargs
    ruleOut,        \* what a direct call of a rule produced
    reduceResponses,\* findEpitopes: the reduceResponses argument
    keepInds,       \* findEpitopes: positions kept for the search
    redundantD,     \* findEpitopes: representative -> collapsed duplicates
    sharedSets,     \* findEpitopes: the candidate / surviving subsets
    acceptedSets,   \* findEpitopes: sharedSets as the filter (line 219) left it
    expSharedSets,  \* findEpitopes: the surviving subsets, re-expanded
    epitopes,       \* findEpitopes: the rows of the DataFrame returned
    args,           \* arguments of a direct call of a helper function
    ret             \* what that call returned

vars == <<pc, responses, ri, islandList, islandColumn, rule, ruleOut,
          reduceResponses, keepInds, redundantD, sharedSets, acceptedSets,
          expSharedSets, epitopes, args, ret>>

islandVars == <<ri, islandList, islandColumn>>
findVars == <<reduceResponses, keepInds, redundantD, sharedSets, acceptedSets,
              expSharedSets, epitopes>>
callVars == <<args, ret>>

-----------------------------------------------------------------------------
(* Bounds of the model *)

\* largest end coordinate of a response given to assignResponseIslands
MaxCoord == 3
\* largest number of responses given to assignResponseIslands
MaxIslandResp == 3

-----------------------------------------------------------------------------
(* Generic helpers *)

Range(s) == {s[i] : i \in 1..Len(s)}

SeqsUpTo(S, n) == UNION {[1..k -> S] : k \in 0..n}

-----------------------------------------------------------------------------
(* Coordinate model *)

\* _coords(r): list(range(int(r.start), int(r.end)))
Coords(r) == r.start .. (r.end - 1)

\* mutant of overlap: the proteins are not compared
overlapAnyProtein(response1, response2) ==
    \E i \in Coords(response1) : i \in Coords(response2)

\* overlap(response1, response2)
overlap(response1, response2) ==
    /\ response1.protein = response2.protein
    /\ \E i \in Coords(response1) : i \in Coords(response2)

-----------------------------------------------------------------------------
(* assignResponseIslands *)

\* An island with a member overlapping r, as the inner loop (167-171) finds it
HasOverlap(island, r, resps) ==
    \E m \in 1..Len(island) : overlap(r, resps[island[m]])

\* mutant: the response joins only the first island with an overlapping
\* member (the break leaves both loops)
AddToFirstIsland(islands, i, resps) ==
    LET hits == {k \in 1..Len(islands) : HasOverlap(islands[k], resps[i], resps)}
    IN  IF hits = {}
        THEN Append(islands, <<i>>)
        ELSE LET first == CHOOSE k \in hits : \A h \in hits : k <= h
             IN  [islands EXCEPT ![first] = Append(@, i)]

\* One pass of the outer loop body (163-174) for the response at position i:
\* the break at 171 leaves only the inner loop, so the response is appended to
\* every island that has a member overlapping it
AddToIslands(islands, i, resps) ==
    LET anyFound == \E k \in 1..Len(islands) : HasOverlap(islands[k], resps[i], resps)
        grown == [k \in 1..Len(islands) |->
                    IF HasOverlap(islands[k], resps[i], resps)
                    THEN Append(islands[k], i)
                    ELSE islands[k]]
    IN  IF anyFound THEN grown ELSE Append(grown, <<i>>)

\* 'I%d' % islandi, islandi counted from 0
IslandLabel(k) == <<"I", k - 1>>

\* The labelling loops (177-180): islands in order, a later island overwrites
RECURSIVE LabelIslands(_, _, _)
LabelIslands(col, islands, k) ==
    IF k > Len(islands) THEN col
    ELSE LabelIslands([i \in DOMAIN col |->
                          IF i \in Range(islands[k]) THEN IslandLabel(k) ELSE col[i]],
                      islands, k + 1)

Proteins == {"Env", "Gag"}

\* the rows given to assignResponseIslands: start < end, seq of length end - start
IslandInputRows ==
    {[protein |-> p, start |-> iv[1], end |-> iv[2],
      seq |-> [x \in 1..(iv[2] - iv[1]) |-> "A"]] :
        p \in Proteins,
        iv \in {c \in (0..(MaxCoord - 1)) \X (1..MaxCoord) : c[1] < c[2]}}

NoRule == [kind |-> "none"]
NoOut == [raised |-> FALSE, accepted |-> FALSE, ep |-> <<>>]

FindIdle ==
    /\ reduceResponses = FALSE
    /\ keepInds = <<>>
    /\ redundantD = <<>>
    /\ sharedSets = <<>>
    /\ acceptedSets = <<>>
    /\ expSharedSets = <<>>
    /\ epitopes = <<>>

\* no helper function is being called
NoArgs == [fn |-> "none"]

CallIdle ==
    /\ args = NoArgs
    /\ ret = NoArgs

InitIslands ==
    /\ pc = "islands"
    /\ responses \in SeqsUpTo(IslandInputRows, MaxIslandResp)
    /\ ri = 1
    /\ islandList = <<>>
    /\ islandColumn = <<>>
    /\ rule = NoRule
    /\ ruleOut = NoOut
    /\ FindIdle
    /\ CallIdle

\* for ri in range(responses.shape[0]): one response processed
ProcessResponse ==
    /\ pc = "islands"
    /\ ri <= Len(responses)
    /\ islandList' = AddToIslands(islandList, ri, responses)
    /\ ri' = ri + 1
    /\ UNCHANGED <<pc, responses, islandColumn, rule, ruleOut, findVars, callVars>>

\* lines 176-183: the IslandID column is built and returned
ReturnIslandColumn ==
    /\ pc = "islands"
    /\ ri > Len(responses)
    /\ islandColumn' = LabelIslands([i \in 1..Len(responses) |-> <<"", 0>>], islandList, 1)
    /\ pc' = "islandsDone"
    /\ UNCHANGED <<responses, ri, islandList, rule, ruleOut, findVars, callVars>>

NextIslands == ProcessResponse \/ ReturnIslandColumn

SpecIslands == InitIslands /\ [][NextIslands]_vars


-----------------------------------------------------------------------------
(* Claims about assignResponseIslands *)

\* positions reachable from the set S by chains of pairwise overlap()
RECURSIVE OverlapClosure(_, _)
OverlapClosure(S, resps) ==
    LET T == S \cup {j \in 1..Len(resps) : \E i \in S : overlap(resps[i], resps[j])}
    IN  IF T = S THEN S ELSE OverlapClosure(T, resps)

Connected(i, j, resps) == j \in OverlapClosure({i}, resps)

OneProtein(resps) == \A i, j \in 1..Len(resps) : resps[i].protein = resps[j].protein

\* islands holding position i
Holders(i) == {k \in 1..Len(islandList) : i \in Range(islandList[k])}

\* islands that had a member overlapping i when i was processed (members are
\* appended in increasing order, so those are the members below i)
Hits(i) ==
    {k \in 1..Len(islandList) :
        \E m \in Range(islandList[k]) : m < i /\ overlap(responses[i], responses[m])}

\* C1 (as claimed): on one protein, two responses get the same IslandID iff
\* they are connected by a chain of pairwise overlap(), whatever the order.
C1_SameIslandIffConnected ==
    (pc = "islandsDone" /\ OneProtein(responses)) =>
        \A i, j \in 1..Len(responses) :
            (islandColumn[i] = islandColumn[j]) <=> Connected(i, j, responses)

\* C2 (as claimed): after each response is processed, every response seen so
\* far is in exactly one island list, the first island that had a member
\* overlapping it or a new singleton, and its IslandID is that island's number.
C2_ExactlyOneFirstIsland ==
    \A i \in 1..(ri - 1) :
        /\ Cardinality(Holders(i)) = 1
        /\ \A k \in Holders(i) :
              /\ IF Hits(i) = {}
                 THEN islandList[k][1] = i
                 ELSE k \in Hits(i) /\ \A h \in Hits(i) : k <= h
              /\ pc = "islandsDone" => islandColumn[i] = IslandLabel(k)

\* C2 (amended): after each response is processed, every response seen so far
\* is a member of exactly the islands that had a member overlapping it when it
\* was processed, or of one new island it starts when none had; its IslandID
\* is the number of the last (highest-numbered) island that holds it.
C2_EveryOverlappingIsland ==
    \A i \in 1..(ri - 1) :
        /\ IF Hits(i) = {}
           THEN /\ Cardinality(Holders(i)) = 1
                /\ \A k \in Holders(i) : islandList[k][1] = i
           ELSE Holders(i) = Hits(i)
        /\ pc = "islandsDone" =>
              \E k \in Holders(i) :
                  /\ \A h \in Holders(i) : h <= k
                  /\ islandColumn[i] = IslandLabel(k)

\* C2 witness: the labels are out and some response sits in two islands
C2_Witness ==
    /\ pc = "islandsDone"
    /\ \E i \in 1..Len(responses) : Cardinality(Holders(i)) >= 2

-----------------------------------------------------------------------------
(* Shared-rule predicates *)

\* more bounds: rows handed to a rule called directly, and the thresholds
MaxRuleResp == 3
MaxThreshold == 3

RECURSIVE SortedSeq(_)
SortedSeq(S) ==
    IF S = {} THEN <<>>
    ELSE LET m == CHOOSE x \in S : \A y \in S : x <= y
         IN  <<m>> \o SortedSeq(S \ {m})

\* sharedCoords(island): the coordinates in ALL rows, sorted; [] for no rows
sharedCoords(island) ==
    IF Len(island) > 0
    THEN SortedSeq({c \in Coords(island[1]) :
                        \A i \in 1..Len(island) : c \in Coords(island[i])})
    ELSE <<>>

\* a rule's return value: (True, ep), (False, {}) or an exception
Accept(ep) == [raised |-> FALSE, accepted |-> TRUE, ep |-> ep]
Reject == [raised |-> FALSE, accepted |-> FALSE, ep |-> <<>>]
Raise == [raised |-> TRUE, accepted |-> FALSE, ep |-> <<>>]

\* mutant of identicalRule: EpEnd copied from the end column
identicalRuleEndColumn(island) ==
    IF Cardinality({island[i].seq : i \in 1..Len(island)}) = 1
    THEN Accept([EpSeq |-> island[1].seq,
                 EpStart |-> island[1].start,
                 EpEnd |-> island[1].end])
    ELSE Reject

\* identicalRule(island)
identicalRule(island) ==
    IF Cardinality({island[i].seq : i \in 1..Len(island)}) = 1
    THEN Accept([EpSeq |-> island[1].seq,
                 EpStart |-> island[1].start,
                 EpEnd |-> island[1].start + Len(island[1].seq)])
    ELSE Reject

\* mutant of ResiduesAt: the residue is read at si, not at si - start
ResiduesAtNoOffset(island, si) ==
    {island[i].seq[si + 1] :
        i \in {j \in 1..Len(island) : si < Len(island[j].seq)}}

\* line 362: the residues the rows show at coordinate si; a row whose seq
\* ends before si shows none
ResiduesAt(island, si) ==
    {island[i].seq[si - island[i].start + 1] :
        i \in {j \in 1..Len(island) : si - island[j].start < Len(island[j].seq)}}

\* lines 358-371: the walk over sharedInds from position k on
RECURSIVE OverlapWalk(_, _, _, _)
OverlapWalk(island, sharedInds, k, acc) ==
    IF k > Len(sharedInds) THEN acc
    ELSE LET aas == ResiduesAt(island, sharedInds[k])
         IN  OverlapWalk(island, sharedInds, k + 1,
                IF "-" \in aas
                THEN [acc EXCEPT !.seq = Append(@, "-")]
                ELSE IF Cardinality(aas) = 1
                THEN [nOverlap |-> acc.nOverlap + 1,
                      nMatching |-> acc.nMatching + 1,
                      seq |-> Append(acc.seq, CHOOSE a \in aas : TRUE)]
                ELSE [nOverlap |-> acc.nOverlap + 1,
                      nMatching |-> acc.nMatching,
                      seq |-> Append(acc.seq, "X")])

\* mutant of overlapRule: the matching count is compared with ==
overlapRuleExactMatching(island, minOverlap, minSharedAA) ==
    LET sharedInds == sharedCoords(island)
        w == OverlapWalk(island, sharedInds, 1,
                         [nOverlap |-> 0, nMatching |-> 0, seq |-> <<>>])
    IN  IF w.nOverlap >= minOverlap /\ w.nMatching = minSharedAA
        THEN IF Len(sharedInds) = 0
             THEN Raise
             ELSE Accept([EpSeq |-> w.seq,
                          EpStart |-> sharedInds[1],
                          EpEnd |-> sharedInds[Len(sharedInds)] + 1])
        ELSE Reject

\* overlapRule(island, minOverlap, minSharedAA); sharedInds[0] at line 373
\* is an IndexError when no coordinate is shared
overlapRule(island, minOverlap, minSharedAA) ==
    LET sharedInds == sharedCoords(island)
        w == OverlapWalk(island, sharedInds, 1,
                         [nOverlap |-> 0, nMatching |-> 0, seq |-> <<>>])
    IN  IF w.nOverlap >= minOverlap /\ w.nMatching >= minSharedAA
        THEN IF Len(sharedInds) = 0
             THEN Raise
             ELSE Accept([EpSeq |-> w.seq,
                          EpStart |-> sharedInds[1],
                          EpEnd |-> sharedInds[Len(sharedInds)] + 1])
        ELSE Reject

Row(s, e, q) == [protein |-> "Env", start |-> s, end |-> e, seq |-> q]

\* rows the rules are called on: agreeing and disagreeing residues, one seq at
\* two places, a gapped seq, a seq shorter than end - start, a disjoint row
RulePool ==
    { Row(0, 3, <<"A", "A", "B">>), Row(0, 3, <<"A", "B", "A">>),
      Row(1, 4, <<"A", "A", "B">>), Row(0, 3, <<"A", "-", "B">>),
      Row(0, 3, <<"A", "A">>),      Row(3, 5, <<"A", "B">>) }

IdenticalRuleArgs == [kind |-> "identicalRule"]
OverlapRuleArgs(mo, ms) == [kind |-> "overlapRule", minOverlap |-> mo, minSharedAA |-> ms]

InitRules ==
    /\ pc = "rule"
    /\ responses \in SeqsUpTo(RulePool, MaxRuleResp)
    /\ rule \in {IdenticalRuleArgs} \cup
                {OverlapRuleArgs(mo, ms) : mo \in 0..MaxThreshold, ms \in 0..MaxThreshold}
    /\ ruleOut = NoOut
    /\ ri = 0
    /\ islandList = <<>>
    /\ islandColumn = <<>>
    /\ FindIdle
    /\ CallIdle

CallIdenticalRule ==
    /\ pc = "rule"
    /\ rule.kind = "identicalRule"
    /\ ruleOut' = identicalRule(responses)
    /\ pc' = "ruleDone"
    /\ UNCHANGED <<responses, rule, islandVars, findVars, callVars>>

CallOverlapRule ==
    /\ pc = "rule"
    /\ rule.kind = "overlapRule"
    /\ ruleOut' = overlapRule(responses, rule.minOverlap, rule.minSharedAA)
    /\ pc' = "ruleDone"
    /\ UNCHANGED <<responses, rule, islandVars, findVars, callVars>>

NextRules == CallIdenticalRule \/ CallOverlapRule

SpecRules == InitRules /\ [][NextRules]_vars

-----------------------------------------------------------------------------
(* Claims about the rules *)

AllRows == 1..Len(responses)

\* coordinates shared by all rows given to the rule
SharedByAll ==
    IF Len(responses) = 0 THEN {}
    ELSE {c \in UNION {Coords(responses[i]) : i \in AllRows} :
            \A i \in AllRows : c \in Coords(responses[i])}

\* what row i shows at coordinate c: nothing past the end of its own seq
Shows(i, c) ==
    IF c - responses[i].start < Len(responses[i].seq)
    THEN {responses[i].seq[c - responses[i].start + 1]}
    ELSE {}

NoGapCols == {c \in SharedByAll : \A i \in AllRows : "-" \notin Shows(i, c)}

OneResidueCols ==
    {c \in NoGapCols : Cardinality(UNION {Shows(i, c) : i \in AllRows}) = 1}

OverlapRuleCalled == pc = "ruleDone" /\ rule.kind = "overlapRule"
IdenticalRuleCalled == pc = "ruleDone" /\ rule.kind = "identicalRule"

\* C7 (as claimed): overlapRule accepts iff the shared coordinates where no
\* member shows '-' number at least minOverlap and those of them with exactly
\* one distinct residue number at least minSharedAA.
C7_OverlapRuleAcceptsIffCounts ==
    OverlapRuleCalled =>
        (ruleOut.accepted <=>
            /\ Cardinality(NoGapCols) >= rule.minOverlap
            /\ Cardinality(OneResidueCols) >= rule.minSharedAA)

\* C8: a subset overlapRule accepts with (minOverlap, minSharedAA) is also
\* accepted with every pair of thresholds that are no larger.
C8_OverlapRuleMonotonic ==
    (OverlapRuleCalled /\ ruleOut.accepted) =>
        \A mo \in 0..rule.minOverlap, ms \in 0..rule.minSharedAA :
            overlapRule(responses, mo, ms).accepted

\* C8 witness: an acceptance of several rows under thresholds that can be loosened
C8_Witness ==
    /\ OverlapRuleCalled
    /\ ruleOut.accepted
    /\ Len(responses) >= 2
    /\ rule.minOverlap >= 2
    /\ rule.minSharedAA >= 1

\* C9 (as claimed): the rules never raise; they return (True, descriptor) or
\* (False, {}), for every subset and every threshold.
C9_RulesNeverRaise ==
    pc = "ruleDone" =>
        /\ ~ruleOut.raised
        /\ IF ruleOut.accepted
           THEN DOMAIN ruleOut.ep = {"EpSeq", "EpStart", "EpEnd"}
           ELSE DOMAIN ruleOut.ep = {}

AllSeqsIdentical == \A i, j \in AllRows : responses[i].seq = responses[j].seq

\* C10 (as claimed): identicalRule accepts a non-empty subset iff all member
\* sequences are identical; EpSeq is that sequence and (EpStart, EpEnd) are the
\* (start, end) of the responses in the subset.
C10_IdenticalRuleOriginalCoords ==
    (IdenticalRuleCalled /\ Len(responses) >= 1) =>
        /\ ruleOut.accepted <=> AllSeqsIdentical
        /\ ruleOut.accepted =>
              \A i \in AllRows :
                  /\ ruleOut.ep.EpSeq = responses[i].seq
                  /\ ruleOut.ep.EpStart = responses[i].start
                  /\ ruleOut.ep.EpEnd = responses[i].end

\* C10 (amended): identicalRule accepts a non-empty subset iff all member
\* sequences are identical; EpSeq is that sequence, EpStart is the start of the
\* first response and EpEnd is EpStart plus the length of the sequence, which
\* are a member's own (start, end) when it starts where the first one does and
\* its sequence is end - start long.
C10_IdenticalRuleFirstCoords ==
    (IdenticalRuleCalled /\ Len(responses) >= 1) =>
        /\ ruleOut.accepted <=> AllSeqsIdentical
        /\ ruleOut.accepted =>
              /\ \A i \in AllRows : ruleOut.ep.EpSeq = responses[i].seq
              /\ ruleOut.ep.EpStart = responses[1].start
              /\ ruleOut.ep.EpEnd = responses[1].start + Len(ruleOut.ep.EpSeq)
              /\ \A i \in AllRows :
                    (/\ responses[i].start = responses[1].start
                     /\ Len(responses[i].seq) = responses[i].end - responses[i].start)
                    => (/\ ruleOut.ep.EpStart = responses[i].start
                        /\ ruleOut.ep.EpEnd = responses[i].end)

\* C10 witness: an accepted subset whose members lie at different coordinates
C10_Witness ==
    /\ IdenticalRuleCalled
    /\ ruleOut.accepted
    /\ \E i, j \in AllRows : responses[i].start # responses[j].start

-----------------------------------------------------------------------------
(* findEpitopes: the minimal explaining-set search *)

\* more bounds: responses in the island searched, and in an island searched
\* under a predicate given as a table
MaxFindResp == 4
MaxTableResp == 3

\* a predicate given as a table: it accepts the rows whose positions in the
\* island (their RespIDs) make one of the listed sets
TableRuleArgs(t) == [kind |-> "tableRule", table |-> t]

tableRule(idx, table) ==
    IF Range(idx) \in table THEN Accept([RespIDs |-> Range(idx)]) ELSE Reject

\* a predicate of the (start, end) pairs given as a table: it accepts the rows
\* whose distinct (start, end) pairs make one of the listed sets
CoordsRuleArgs(t) == [kind |-> "coordsRule", table |-> t]

PairsOf(rows) == {<<rows[k].start, rows[k].end>> : k \in 1..Len(rows)}

coordsRule(rows, table) ==
    IF PairsOf(rows) \in table THEN Accept([Pairs |-> PairsOf(rows)]) ELSE Reject

\* sharedRule(responses.iloc[idx], **kwargs)
ApplyRule(r, resps, idx) ==
    LET rows == [k \in 1..Len(idx) |-> resps[idx[k]]]
    IN  CASE r.kind = "identicalRule" -> identicalRule(rows)
          [] r.kind = "overlapRule" -> overlapRule(rows, r.minOverlap, r.minSharedAA)
          [] r.kind = "tableRule" -> tableRule(idx, r.table)
          [] r.kind = "coordsRule" -> coordsRule(rows, r.table)

\* lines 195-206: the reduction loop from position i on;
\* st = [coords, keepInds, redundantD]
RECURSIVE ReduceLoop(_, _, _)
ReduceLoop(resps, i, st) ==
    IF i > Len(resps) THEN st
    ELSE LET key == <<resps[i].start, resps[i].end>>
         IN  ReduceLoop(resps, i + 1,
                IF key \notin DOMAIN st.coords
                THEN [st EXCEPT !.coords = @ @@ (key :> i),
                                !.keepInds = Append(@, i)]
                ELSE LET rep == st.coords[key]
                     IN  IF rep \in DOMAIN st.redundantD
                         THEN [st EXCEPT !.redundantD[rep] = Append(@, i)]
                         ELSE [st EXCEPT !.redundantD = @ @@ (rep :> <<i>>)])

\* mutant of OrigIndex: redResp is read at the positions of responses
OrigIndexOfResponses(reduce, keep, k) == k

\* the row position behind position k of redResp (lines 208, 210)
OrigIndex(reduce, keep, k) == IF reduce THEN keep[k] ELSE k

\* redResp.shape[0]
NumReduced(reduce, keep, resps) == IF reduce THEN Len(keep) ELSE Len(resps)

\* itertools.combinations(range(lo-1, n), N), in its lexicographic order
RECURSIVE Combinations(_, _, _)
Combinations(lo, n, N) ==
    IF N = 0 THEN << <<>> >>
    ELSE IF lo > n THEN <<>>
    ELSE [k \in 1..Len(Combinations(lo + 1, n, N - 1)) |->
             <<lo>> \o Combinations(lo + 1, n, N - 1)[k]]
         \o Combinations(lo + 1, n, N)

\* lines 213-216: every non-empty combination, sizes 1..n in turn
RECURSIVE AllSets(_, _)
AllSets(n, N) ==
    IF N > n THEN <<>> ELSE Combinations(1, n, N) \o AllSets(n, N + 1)

\* line 219: the list comprehension from position k of the candidates on
RECURSIVE FilterFrom(_, _, _, _, _, _)
FilterFrom(all, k, r, resps, reduce, keep) ==
    IF k > Len(all) THEN <<>>
    ELSE LET ss == all[k]
             idx == [m \in 1..Len(ss) |-> OrigIndex(reduce, keep, ss[m])]
         IN  (IF ApplyRule(r, resps, idx).accepted THEN <<ss>> ELSE <<>>)
             \o FilterFrom(all, k + 1, r, resps, reduce, keep)

\* lines 213-219: the sets the rule accepts, in the order they were generated
FilterShared(r, resps, reduce, keep) ==
    FilterFrom(AllSets(NumReduced(reduce, keep, resps), 1), 1, r, resps, reduce, keep)

RemoveAt(s, k) == [j \in 1..(Len(s) - 1) |-> IF j < k THEN s[j] ELSE s[j + 1]]

\* lines 223-229: the position in sets of the next set the product loop removes
\* (the first one still there that is inside another set of the copy), 0 if none
NextSubset(sets, copy) ==
    LET inside == {k \in 1..Len(sets) :
                     \E j \in 1..Len(copy) :
                        copy[j] # sets[k] /\ Range(sets[k]) \subseteq Range(copy[j])}
    IN  IF inside = {} THEN 0 ELSE CHOOSE k \in inside : \A h \in inside : k <= h

\* mutant of Explained: only a larger set explains (the comment at line 246)
ExplainedByLarger(sets, k, respInd) ==
    \E j \in 1..Len(sets) :
        j # k /\ Len(sets[j]) > Len(sets[k]) /\ respInd \in Range(sets[j])

\* mutant of Explained: the test 'not s2 is s1' is missing
ExplainedIncludingSelf(sets, k, respInd) ==
    \E j \in 1..Len(sets) : respInd \in Range(sets[j])

\* lines 242-247: respInd of the set at position k is in another set
Explained(sets, k, respInd) ==
    \E j \in 1..Len(sets) : j # k /\ respInd \in Range(sets[j])

\* mutant of AllExplained: any() for all()
AnyExplained(sets, k) ==
    \E m \in 1..Len(sets[k]) : Explained(sets, k, sets[k][m])

\* lines 239-249: all(eachExplained) for the set at position k
AllExplained(sets, k) ==
    \A m \in 1..Len(sets[k]) : Explained(sets, k, sets[k][m])

\* lines 236-253: the position of the set one pass of the while loop removes:
\* the first fully explained set in sorted(key=len) order (stable), 0 if none
NextCovered(sets) ==
    LET cov == {k \in 1..Len(sets) : AllExplained(sets, k)}
    IN  IF cov = {} THEN 0
        ELSE CHOOSE k \in cov :
                \A h \in cov : \/ Len(sets[k]) < Len(sets[h])
                               \/ (Len(sets[k]) = Len(sets[h]) /\ k <= h)

\* lines 257-263: one surviving set re-expanded, from position m on
RECURSIVE ExpandSet(_, _, _, _)
ExpandSet(ss, m, keep, red) ==
    IF m > Len(ss) THEN <<>>
    ELSE LET i == keep[ss[m]]
         IN  (IF i \in DOMAIN red THEN <<i>> \o red[i] ELSE <<i>>)
             \o ExpandSet(ss, m + 1, keep, red)

\* mutant of ExpandAll: the duplicates of redundantD are not put back
ExpandAllNoDuplicates(sets, reduce, keep, red) ==
    IF reduce
    THEN [k \in 1..Len(sets) |-> [m \in 1..Len(sets[k]) |-> keep[sets[k][m]]]]
    ELSE sets

\* lines 254-265
ExpandAll(sets, reduce, keep, red) ==
    IF reduce
    THEN [k \in 1..Len(sets) |-> ExpandSet(sets[k], 1, keep, red)]
    ELSE sets

\* rows of one protein: agreeing and disagreeing residues at one place, a
\* shorter row, and a row at a third place
FindPool ==
    { Row(0, 3, <<"A", "A", "B">>), Row(0, 3, <<"A", "B", "A">>),
      Row(0, 3, <<"B", "A", "A">>), Row(0, 2, <<"B", "C">>),
      Row(1, 4, <<"A", "A", "B">>) }

\* an island: every response reachable from the first by chains of overlap()
IsIsland(resps) ==
    Len(resps) >= 1 /\ OverlapClosure({1}, resps) = 1..Len(resps)

\* thresholds of the overlapRule searches; no subset raises under them
FindOverlapArgs == {OverlapRuleArgs(1, 1), OverlapRuleArgs(2, 2), OverlapRuleArgs(3, 1)}

\* the island searched under a table: rows 1, 2 at (0,3), rows 3, 4 at (1,4), ...
TableIsland(n) ==
    [k \in 1..n |-> Row((k - 1) \div 2, ((k - 1) \div 2) + 3, <<"A", "A", "B">>)]

\* findEpitopes(responses, sharedRule, reduceResponses, **kwargs) is called
\* on an island under identicalRule or overlapRule, or on an island of n rows
\* under any predicate over its rows
InitFind ==
    /\ pc = "find"
    /\ \/ /\ responses \in SeqsUpTo(FindPool, MaxFindResp)
          /\ IsIsland(responses)
          /\ rule \in {IdenticalRuleArgs} \cup FindOverlapArgs
       \/ \E n \in 1..MaxTableResp :
             /\ responses = TableIsland(n)
             /\ \E t \in SUBSET (SUBSET (1..n) \ {{}}) : rule = TableRuleArgs(t)
    /\ reduceResponses \in BOOLEAN
    /\ keepInds = <<>>
    /\ redundantD = <<>>
    /\ sharedSets = <<>>
    /\ acceptedSets = <<>>
    /\ expSharedSets = <<>>
    /\ epitopes = <<>>
    /\ ruleOut = NoOut
    /\ ri = 0
    /\ islandList = <<>>
    /\ islandColumn = <<>>
    /\ CallIdle

\* lines 189-210
Reduce ==
    /\ pc = "find"
    /\ IF reduceResponses
       THEN LET st == ReduceLoop(responses, 1,
                         [coords |-> <<>>, keepInds |-> <<>>, redundantD |-> <<>>])
            IN  keepInds' = st.keepInds /\ redundantD' = st.redundantD
       ELSE UNCHANGED <<keepInds, redundantD>>
    /\ pc' = "enumerate"
    /\ UNCHANGED <<responses, rule, ruleOut, islandVars, reduceResponses,
                   sharedSets, acceptedSets, expSharedSets, epitopes, callVars>>

\* lines 212-222: enumeration, filter, and the copy the product loop reads
Filter ==
    /\ pc = "enumerate"
    /\ sharedSets' = FilterShared(rule, responses, reduceResponses, keepInds)
    /\ acceptedSets' = sharedSets'
    /\ pc' = "subsets"
    /\ UNCHANGED <<responses, rule, ruleOut, islandVars, reduceResponses,
                   keepInds, redundantD, expSharedSets, epitopes, callVars>>

\* lines 223-229: one removal of the product loop
RemoveSubset ==
    /\ pc = "subsets"
    /\ NextSubset(sharedSets, acceptedSets) # 0
    /\ sharedSets' = RemoveAt(sharedSets, NextSubset(sharedSets, acceptedSets))
    /\ UNCHANGED <<pc, responses, rule, ruleOut, islandVars, reduceResponses,
                   keepInds, redundantD, acceptedSets, expSharedSets, epitopes, callVars>>

\* lines 234-253: one pass of the while loop that removes a set; it starts
\* when the product loop has nothing left to remove
RemoveCovered ==
    /\ pc = "subsets"
    /\ NextSubset(sharedSets, acceptedSets) = 0
    /\ NextCovered(sharedSets) # 0
    /\ sharedSets' = RemoveAt(sharedSets, NextCovered(sharedSets))
    /\ UNCHANGED <<pc, responses, rule, ruleOut, islandVars, reduceResponses,
                   keepInds, redundantD, acceptedSets, expSharedSets, epitopes, callVars>>

\* lines 234-265: the pass that removes nothing ends the loop; re-expansion
Expand ==
    /\ pc = "subsets"
    /\ NextSubset(sharedSets, acceptedSets) = 0
    /\ NextCovered(sharedSets) = 0
    /\ expSharedSets' = ExpandAll(sharedSets, reduceResponses, keepInds, redundantD)
    /\ pc' = "expanded"
    /\ UNCHANGED <<responses, rule, ruleOut, islandVars, reduceResponses,
                   keepInds, redundantD, sharedSets, acceptedSets,
                   epitopes, callVars>>

\* lines 275-283 (and 304-312): the members of set k in no other set
RECURSIVE UniqueInds(_, _, _)
UniqueInds(exp, k, j) ==
    IF j > Len(exp[k]) THEN <<>>
    ELSE IF \E ssi \in 1..Len(exp) : ssi # k /\ exp[k][j] \in Range(exp[ssi])
         THEN UniqueInds(exp, k, j + 1)
         ELSE <<exp[k][j]>> \o UniqueInds(exp, k, j + 1)

\* 'E%d' % epitopei
EpLabel(k) == <<"E", k - 1>>

\* lines 285-286 (and 314-315): the descriptor of set k with its EpID
EpOf(r, resps, exp, k) ==
    [EpID |-> EpLabel(k)] @@ ApplyRule(r, resps, UniqueInds(exp, k, 1)).ep

\* sharedRule raises while a descriptor is built
AssemblyRaises(r, resps, exp) ==
    \E k \in 1..Len(exp) : ApplyRule(r, resps, UniqueInds(exp, k, 1)).raised

\* the entry of epitopes for a response that no set holds
None == [None |-> TRUE]

\* mutant of ResponseIndexed: an entry already set is not overwritten
RECURSIVE ResponseIndexedFirstWins(_, _, _, _, _)
ResponseIndexedFirstWins(r, resps, exp, k, eps) ==
    IF k > Len(exp) THEN eps
    ELSE ResponseIndexedFirstWins(r, resps, exp, k + 1,
            [i \in 1..Len(eps) |->
                IF i \in Range(exp[k]) /\ eps[i] = None
                THEN EpOf(r, resps, exp, k) ELSE eps[i]])

\* lines 272-290: the loop over expSharedSets from set k on
RECURSIVE ResponseIndexed(_, _, _, _, _)
ResponseIndexed(r, resps, exp, k, eps) ==
    IF k > Len(exp) THEN eps
    ELSE ResponseIndexed(r, resps, exp, k + 1,
            [i \in 1..Len(eps) |->
                IF i \in Range(exp[k]) THEN EpOf(r, resps, exp, k) ELSE eps[i]])

\* mutant of FloaterFlag: a response is flagged when its set has another member
FloaterFlagByCompany(exp, k, i) ==
    IF Len(exp[k]) > 1 THEN 1 ELSE 0

\* line 321: 0 if i in uinds else 1
FloaterFlag(exp, k, i) ==
    IF i \in Range(UniqueInds(exp, k, 1)) THEN 0 ELSE 1

\* lines 301-322: the rows appended from set k on
RECURSIVE PairIndexed(_, _, _, _)
PairIndexed(r, resps, exp, k) ==
    IF k > Len(exp) THEN <<>>
    ELSE [j \in 1..Len(exp[k]) |->
            [RespID |-> exp[k][j], Floater |-> FloaterFlag(exp, k, exp[k][j])]
                @@ EpOf(r, resps, exp, k)]
         \o PairIndexed(r, resps, exp, k + 1)

\* lines 266-294: returnResponseIndexed=True
AssembleResponseIndexed ==
    /\ pc = "expanded"
    /\ IF AssemblyRaises(rule, responses, expSharedSets)
       THEN pc' = "raised" /\ UNCHANGED epitopes
       ELSE /\ epitopes' = ResponseIndexed(rule, responses, expSharedSets, 1,
                                           [i \in 1..Len(responses) |-> None])
            /\ pc' = "responseIndexed"
    /\ UNCHANGED <<responses, rule, ruleOut, islandVars, reduceResponses,
                   keepInds, redundantD, sharedSets, acceptedSets,
                   expSharedSets, callVars>>

\* lines 295-322: returnResponseIndexed=False
AssemblePairIndexed ==
    /\ pc = "expanded"
    /\ IF AssemblyRaises(rule, responses, expSharedSets)
       THEN pc' = "raised" /\ UNCHANGED epitopes
       ELSE /\ epitopes' = PairIndexed(rule, responses, expSharedSets, 1)
            /\ pc' = "pairIndexed"
    /\ UNCHANGED <<responses, rule, ruleOut, islandVars, reduceResponses,
                   keepInds, redundantD, sharedSets, acceptedSets,
                   expSharedSets, callVars>>

Next ==
    \/ Reduce \/ Filter \/ RemoveSubset \/ RemoveCovered \/ Expand
    \/ AssembleResponseIndexed \/ AssemblePairIndexed

Spec == InitFind /\ [][Next]_vars

-----------------------------------------------------------------------------
(* Claims about the findEpitopes search *)

SearchEnded == pc = "expanded"

AllResponses == 1..Len(responses)

\* the response positions in the surviving subset at position k
Survivor(k) == Range(expSharedSets[k])

Survivors == 1..Len(expSharedSets)

CoveredResponses == UNION {Survivor(k) : k \in Survivors}

\* the verdict of the predicate on exactly the responses at the positions S
Accepts(S) == ApplyRule(rule, responses, SortedSeq(S)).accepted

AcceptsEverySingle == \A i \in AllResponses : Accepts({i})

HasOwnMember(sets, k) ==
    \E x \in Range(sets[k]) :
        \A j \in 1..Len(sets) : j # k => x \notin Range(sets[j])

NoStrictSubset(sets, k) ==
    \A j \in 1..Len(sets) :
        ~(Range(sets[k]) \subseteq Range(sets[j]) /\ Range(sets[k]) # Range(sets[j]))

\* C4: when the search ends no surviving subset is a strict subset of another
\* and each has a response index that is in no other surviving subset, before
\* and after re-expansion.
C4_NonRedundant ==
    SearchEnded =>
        /\ \A k \in 1..Len(sharedSets) :
              NoStrictSubset(sharedSets, k) /\ HasOwnMember(sharedSets, k)
        /\ \A k \in Survivors :
              NoStrictSubset(expSharedSets, k) /\ HasOwnMember(expSharedSets, k)

\* C4 witness: sets were eliminated, several survive and share a response
C4_Witness ==
    /\ SearchEnded
    /\ Len(acceptedSets) > Len(sharedSets)
    /\ \E k, j \in Survivors : k # j /\ Survivor(k) \cap Survivor(j) # {}

\* U can be covered with at most n of the sets in acc
RECURSIVE CanCover(_, _, _)
CanCover(U, n, acc) ==
    /\ n >= 0
    /\ \/ U = {}
       \/ \E S \in acc : S \cap U # {} /\ CanCover(U \ S, n - 1, acc)

\* C5 (as claimed): no collection of accepted subsets with fewer members than
\* the returned one covers every response the returned one covers.
C5_MinimumCover ==
    SearchEnded =>
        ~CanCover(CoveredResponses, Len(expSharedSets) - 1,
                  {S \in SUBSET AllResponses : S # {} /\ Accepts(S)})

\* C6 (as claimed): every surviving subset, re-expanded, is accepted by the
\* predicate applied to exactly its responses.
C6_SurvivorsAccepted ==
    SearchEnded =>
        \A k \in Survivors :
            ApplyRule(rule, responses, expSharedSets[k]).accepted

-----------------------------------------------------------------------------
(* hlaRule (lines 395-446)                                                  *)
(* Ranks and topPct are counted in tenths: 1 is 0.1 and 10 is 1.0.          *)

\* largest number of responses given to hlaRule
MaxHlaResp == 2

\* the k-mers of sharedInds of one length k, leftmost first
Windows(sharedInds, k) ==
    [s \in 1..(IF Len(sharedInds) >= k THEN Len(sharedInds) - k + 1 ELSE 0) |->
        SubSeq(sharedInds, s, s + k - 1)]

\* getMers(sharedInds, nmer), called at line 409 and imported from
\* HLAPredCache: the index lists of every k-mer, k drawn from nmer
RECURSIVE getMers(_, _)
getMers(sharedInds, nmer) ==
    IF nmer = <<>> THEN <<>>
    ELSE Windows(sharedInds, Head(nmer)) \o getMers(sharedInds, Tail(nmer))

\* line 426: the entries of one (mer, allele) column that stay non-NaN
WithinTop(mat, ii, hi, topPct) ==
    {r \in DOMAIN mat : mat[r][ii][hi] <= topPct}

RECURSIVE SumRanks(_, _, _, _)
SumRanks(mat, R, ii, hi) ==
    IF R = {} THEN 0
    ELSE LET r == CHOOSE x \in R : TRUE
         IN  mat[r][ii][hi] + SumRanks(mat, R \ {r}, ii, hi)

\* lines 427-429: nanargmin of the nanmean over responses, row-major order
BestPair(mat, nMers, nHla, topPct) ==
    LET Pairs == {p \in (1..nMers) \X (1..nHla) : WithinTop(mat, p[1], p[2], topPct) # {}}
        Sum(p) == SumRanks(mat, WithinTop(mat, p[1], p[2], topPct), p[1], p[2])
        Cnt(p) == Cardinality(WithinTop(mat, p[1], p[2], topPct))
        Less(p, q) == Sum(p) * Cnt(q) < Sum(q) * Cnt(p)
        Before(p, q) == p[1] < q[1] \/ (p[1] = q[1] /\ p[2] < q[2])
    IN  CHOOSE p \in Pairs :
            \A q \in Pairs \ {p} : Less(p, q) \/ (~Less(q, p) /\ Before(p, q))

\* lines 433-442 with useX=True
RECURSIVE HlaSeq(_, _, _)
HlaSeq(island, epitopeInds, k) ==
    IF k > Len(epitopeInds) THEN <<>>
    ELSE LET aas == {island[i].seq[epitopeInds[k] - island[i].start + 1] :
                        i \in 1..Len(island)}
         IN  <<IF Cardinality(aas) = 1 THEN CHOOSE a \in aas : TRUE ELSE "X">>
             \o HlaSeq(island, epitopeInds, k + 1)

\* the test of line 424
HlaTest(island, nMers, nHla, mat, topPct) ==
    \A r \in 1..Len(island) :
        \E ii \in 1..nMers : \E hi \in 1..nHla : mat[r][ii][hi] <= topPct

\* hlaRule(island, hlaList, ba, topPct, nmer); rankPctMat is the matrix that
\* lines 410-421 fill from ba.  With no rows the test holds of nothing and
\* nanmin (line 428) raises on the empty matrix.
hlaRule(island, hlaList, rankPctMat, topPct, nmer) ==
    LET possibleEpitopeInds == getMers(sharedCoords(island), nmer)
        nMers == Len(possibleEpitopeInds)
        nHla == Len(hlaList)
    IN  IF HlaTest(island, nMers, nHla, rankPctMat, topPct)
        THEN IF Len(island) = 0
             THEN Raise
             ELSE LET best == BestPair(rankPctMat, nMers, nHla, topPct)
                      epitopeInds == possibleEpitopeInds[best[1]]
                  IN  Accept([EpSeq |-> HlaSeq(island, epitopeInds, 1),
                              EpStart |-> epitopeInds[1],
                              EpEnd |-> epitopeInds[Len(epitopeInds)] + 1,
                              hlas |-> <<hlaList[best[2]]>>])
        ELSE Reject

\* rows hlaRule is called on, the alleles, the k-mer lengths, the ranks a
\* lookup can give (0.1, 1.0) and the topPct values (the default 0.1, 1.0)
HlaPool ==
    { Row(0, 3, <<"A", "A", "B">>), Row(0, 3, <<"A", "B", "A">>),
      Row(1, 4, <<"A", "A", "B">>) }
HlaList == <<"A2", "B7">>
HlaNmer == <<2>>
RankPool == {1, 10}
TopPcts == {1, 10}

HlaRuleArgs(mat, topPct) ==
    [kind |-> "hlaRule", hlaList |-> HlaList, rankPctMat |-> mat,
     topPct |-> topPct, nmer |-> HlaNmer]

\* line 417: the part of response r under the index list inds
CurMer(r, inds) == [k \in 1..Len(inds) |-> r.seq[inds[k] - r.start + 1]]

\* lines 414-421: a rank is looked up from the response's sequence, the
\* k-mer's residues and the allele, so equal lookups give equal ranks
RanksFromLookup(island, mers, mat) ==
    \A i, j \in 1..Len(island) : \A ii, jj \in 1..Len(mers) :
        (/\ island[i].seq = island[j].seq
         /\ CurMer(island[i], mers[ii]) = CurMer(island[j], mers[jj]))
            => mat[i][ii] = mat[j][jj]

InitHla ==
    /\ pc = "hla"
    /\ responses \in SeqsUpTo(HlaPool, MaxHlaResp)
    /\ \E mat \in [1..Len(responses) ->
                    [1..Len(getMers(sharedCoords(responses), HlaNmer)) ->
                        [1..Len(HlaList) -> RankPool]]] :
          /\ RanksFromLookup(responses, getMers(sharedCoords(responses), HlaNmer), mat)
          /\ \E t \in TopPcts : rule = HlaRuleArgs(mat, t)
    /\ ruleOut = NoOut
    /\ ri = 0
    /\ islandList = <<>>
    /\ islandColumn = <<>>
    /\ FindIdle
    /\ CallIdle

CallHlaRule ==
    /\ pc = "hla"
    /\ ruleOut' = hlaRule(responses, rule.hlaList, rule.rankPctMat, rule.topPct, rule.nmer)
    /\ pc' = "hlaDone"
    /\ UNCHANGED <<responses, rule, islandVars, findVars, callVars>>

NextHla == CallHlaRule

SpecHla == InitHla /\ [][NextHla]_vars

\* C11 (as claimed): hlaRule accepts a subset iff one single (k-mer, allele)
\* pair has a rank within topPct for every response of the subset.
C11_HlaRuleAcceptsIffCommonPair ==
    pc = "hlaDone" =>
        (ruleOut.accepted <=>
            \E ii \in 1..Len(getMers(sharedCoords(responses), rule.nmer)) :
                \E hi \in 1..Len(rule.hlaList) :
                    \A r \in 1..Len(responses) :
                        rule.rankPctMat[r][ii][hi] <= rule.topPct)

-----------------------------------------------------------------------------
(* encodeVariants (lines 514-536) and decodeVariants (lines 538-562)        *)

\* largest number of peptides given to encodeVariants, and their largest length
MaxPeps == 3
MaxPepLen == 2

Residues == {"A", "B"}

\* list(set(...)) at line 529: the members of a set in any order
Perms(S) == {p \in [1..Cardinality(S) -> S] : Range(p) = S}

\* lines 532-535: what one column adds to out
ColumnChoices(v) ==
    IF Cardinality(v) = 1
    THEN {<<CHOOSE a \in v : TRUE>>}
    ELSE {<<"[">> \o p \o <<"]">> : p \in Perms(v)}

\* lines 529-535 from column i on: every string the loop can build
RECURSIVE EncodeFrom(_, _, _)
EncodeFrom(peps, i, L) ==
    IF i > L THEN {<<>>}
    ELSE {c \o rest : c \in ColumnChoices({peps[k][i] : k \in 1..Len(peps)}),
                      rest \in EncodeFrom(peps, i + 1, L)}

\* line 525
RECURSIVE DropEmpty(_)
DropEmpty(peps) ==
    IF peps = <<>> THEN <<>>
    ELSE IF Len(Head(peps)) > 0
         THEN <<Head(peps)>> \o DropEmpty(Tail(peps))
         ELSE DropEmpty(Tail(peps))

\* encodeVariants(peps): the strings it can return; the empty set stands for
\* the AssertionError of line 527
encodeVariants(peps) ==
    LET kept == DropEmpty(peps)
        Ls == {Len(kept[k]) : k \in 1..Len(kept)}
    IN  IF Cardinality(Ls) # 1 THEN {}
        ELSE EncodeFrom(kept, 1, CHOOSE l \in Ls : TRUE)

\* lines 549-560: the loop of decodeVariants from position i on
RECURSIVE DecodeScan(_, _, _, _, _)
DecodeScan(s, i, vs, inGroup, cur) ==
    IF i > Len(s) THEN vs
    ELSE IF s[i] \notin {"[", "]"} /\ ~inGroup
         THEN DecodeScan(s, i + 1, Append(vs, <<s[i]>>), inGroup, cur)
    ELSE IF s[i] \notin {"[", "]"}
         THEN DecodeScan(s, i + 1, vs, inGroup, Append(cur, s[i]))
    ELSE IF s[i] = "["
         THEN DecodeScan(s, i + 1, vs, TRUE, cur)
    ELSE DecodeScan(s, i + 1, Append(vs, cur), FALSE, <<>>)

\* mutant of Product: only the first alternative of every group is taken
RECURSIVE ProductFirstOnly(_)
ProductFirstOnly(vs) ==
    IF vs = <<>> THEN << <<>> >>
    ELSE IF Head(vs) = <<>> THEN <<>>
    ELSE LET rest == ProductFirstOnly(Tail(vs))
         IN  [k \in 1..Len(rest) |-> <<Head(vs)[1]>> \o rest[k]]

\* line 561: itertools.product(*vs), joined; the last group varies fastest
RECURSIVE Product(_)
Product(vs) ==
    IF vs = <<>> THEN << <<>> >>
    ELSE LET rest == Product(Tail(vs))
             n == Len(rest)
         IN  [k \in 1..(Len(Head(vs)) * n) |->
                <<Head(vs)[((k - 1) \div n) + 1]>> \o rest[((k - 1) % n) + 1]]

\* decodeVariants(s)
decodeVariants(s) == Product(DecodeScan(s, 1, <<>>, FALSE, <<>>))

Peptides == SeqsUpTo(Residues, MaxPepLen)

InitCodec ==
    /\ pc = "codec"
    /\ \E peps \in SeqsUpTo(Peptides, MaxPeps) :
          args = [fn |-> "encodeVariants", peps |-> peps]
    /\ ret = NoArgs
    /\ responses = <<>>
    /\ rule = NoRule
    /\ ruleOut = NoOut
    /\ ri = 0
    /\ islandList = <<>>
    /\ islandColumn = <<>>
    /\ FindIdle

\* encodeVariants(peps) returns one of its strings, or raises
CallEncodeVariants ==
    /\ pc = "codec"
    /\ IF encodeVariants(args.peps) = {}
       THEN ret' = [raised |-> TRUE, encoded |-> <<>>, decoded |-> <<>>]
       ELSE \E s \in encodeVariants(args.peps) :
               ret' = [raised |-> FALSE, encoded |-> s, decoded |-> <<>>]
    /\ pc' = "encoded"
    /\ UNCHANGED <<responses, rule, ruleOut, islandVars, findVars, args>>

\* decodeVariants is applied to the string returned
CallDecodeVariants ==
    /\ pc = "encoded"
    /\ ~ret.raised
    /\ ret' = [ret EXCEPT !.decoded = decodeVariants(ret.encoded)]
    /\ pc' = "decoded"
    /\ UNCHANGED <<responses, rule, ruleOut, islandVars, findVars, args>>

NextCodec == CallEncodeVariants \/ CallDecodeVariants

SpecCodec == InitCodec /\ [][NextCodec]_vars

EqualLength(peps) == \A i, j \in 1..Len(peps) : Len(peps[i]) = Len(peps[j])

\* the round trip ended with every input peptide among the decoded ones
RoundTrip ==
    /\ pc = "decoded"
    /\ \A i \in 1..Len(args.peps) : args.peps[i] \in Range(ret.decoded)

\* C12 (as claimed): for every non-empty list of equal-length peptides,
\* encodeVariants returns and every input peptide is an element of
\* decodeVariants(encodeVariants(peps)).
C12_RoundTrip ==
    (pc \in {"encoded", "decoded"} /\ Len(args.peps) > 0 /\ EqualLength(args.peps))
        => /\ ~ret.raised
           /\ pc = "decoded" => RoundTrip

\* C12 (amended): as claimed, for peptides of equal length of at least one.
C12_RoundTripNonEmptyPeptides ==
    (/\ pc \in {"encoded", "decoded"}
     /\ Len(args.peps) > 0
     /\ EqualLength(args.peps)
     /\ Len(args.peps[1]) > 0)
        => /\ ~ret.raised
           /\ pc = "decoded" => RoundTrip

\* a round trip through a bracket group: two peptides differing in a column
C12_Witness ==
    /\ pc = "decoded"
    /\ Len(args.peps) >= 2
    /\ EqualLength(args.peps)
    /\ "[" \in Range(ret.encoded)
    /\ Len(ret.decoded) > Len(args.peps)
    /\ RoundTrip

-----------------------------------------------------------------------------
(* findpeptide (lines 448-497)                                              *)
(* Positions are kept 0-based as the code returns them; seq[pos] of the     *)
(* code is seq[pos + 1] here.                                               *)

\* largest length of the seq searched by findpeptide
MaxSeqLen == 4

\* line 469: seq.replace('-', '')
RECURSIVE Ungap(_)
Ungap(seq) ==
    IF seq = <<>> THEN <<>>
    ELSE IF Head(seq) = "-" THEN Ungap(Tail(seq))
    ELSE <<Head(seq)>> \o Ungap(Tail(seq))

\* str.find: the lowest 0-based index at which pep starts in s, or -1
StrFind(s, pep) ==
    LET at == {i \in 0..(Len(s) - Len(pep)) : SubSeq(s, i + 1, i + Len(pep)) = pep}
    IN  IF at = {} THEN -1 ELSE CHOOSE i \in at : \A j \in at : i <= j

\* lines 475-478; an index past the end of seq is an IndexError
RECURSIVE GapCountLoop(_, _, _, _)
GapCountLoop(seq, ngInd, ngCount, pos) ==
    IF ngCount < ngInd
    THEN IF pos >= Len(seq) THEN [raised |-> TRUE, ngCount |-> ngCount, pos |-> pos]
         ELSE GapCountLoop(seq, ngInd,
                           IF seq[pos + 1] # "-" THEN ngCount + 1 ELSE ngCount, pos + 1)
    ELSE IF pos >= Len(seq) THEN [raised |-> TRUE, ngCount |-> ngCount, pos |-> pos]
    ELSE IF seq[pos + 1] = "-" THEN GapCountLoop(seq, ngInd, ngCount, pos + 1)
    ELSE [raised |-> FALSE, ngCount |-> ngCount, pos |-> pos]

\* lines 487-493
RECURSIVE EndLoop(_, _, _, _, _)
EndLoop(seq, n, count, endPos, pepOut) ==
    IF count >= n THEN [raised |-> FALSE, endPos |-> endPos, pepOut |-> pepOut]
    ELSE IF endPos >= Len(seq) THEN [raised |-> TRUE, endPos |-> endPos, pepOut |-> pepOut]
    ELSE IF seq[endPos + 1] # "-"
         THEN EndLoop(seq, n, count + 1, endPos + 1, Append(pepOut, seq[endPos + 1]))
    ELSE EndLoop(seq, n, count, endPos + 1, Append(pepOut, "-"))

FindRaised == [raised |-> TRUE, startPos |-> 0, endPos |-> 0, pepOut |-> <<>>]

\* mutant of findpeptide: the gaps before the match are not counted
findpeptideNoGapCount(pep, seq) ==
    LET ngInd == StrFind(Ungap(seq), pep)
        startPos == ngInd
    IN  IF startPos = -1
        THEN [raised |-> FALSE, startPos |-> -1, endPos |-> -1, pepOut |-> <<>>]
        ELSE LET e == EndLoop(seq, Len(pep), 0, startPos, <<>>)
             IN  IF e.raised THEN FindRaised
                 ELSE [raised |-> FALSE, startPos |-> startPos,
                       endPos |-> e.endPos, pepOut |-> e.pepOut]

\* findpeptide(pep, seq, returnGapped=True)
findpeptide(pep, seq) ==
    LET ngInd == StrFind(Ungap(seq), pep)
        g == GapCountLoop(seq, ngInd, 0, 0)
        startPos == ngInd + (g.pos - g.ngCount)
    IN  IF g.raised THEN FindRaised
        ELSE IF startPos = -1
        THEN [raised |-> FALSE, startPos |-> -1, endPos |-> -1, pepOut |-> <<>>]
        ELSE LET e == EndLoop(seq, Len(pep), 0, startPos, <<>>)
             IN  IF e.raised THEN FindRaised
                 ELSE [raised |-> FALSE, startPos |-> startPos,
                       endPos |-> e.endPos, pepOut |-> e.pepOut]

\* the docstring's and the spec's example calls
ExamplePep == <<"Q", "K", "E">>
ExampleSeqs ==
    { <<"K", "M", "Q", "K", "E", "Y", "A", "L", "L">>,
      <<"K", "M", "-", "Q", "K", "E", "Y", "A", "L", "L">> }

InitFindpeptide ==
    /\ pc = "findpeptide"
    /\ \/ \E pep \in Peptides : \E seq \in SeqsUpTo(Residues \cup {"-"}, MaxSeqLen) :
             args = [fn |-> "findpeptide", pep |-> pep, seq |-> seq]
       \/ \E seq \in ExampleSeqs :
             args = [fn |-> "findpeptide", pep |-> ExamplePep, seq |-> seq]
    /\ ret = NoArgs
    /\ responses = <<>>
    /\ rule = NoRule
    /\ ruleOut = NoOut
    /\ ri = 0
    /\ islandList = <<>>
    /\ islandColumn = <<>>
    /\ FindIdle

CallFindpeptide ==
    /\ pc = "findpeptide"
    /\ ret' = findpeptide(args.pep, args.seq)
    /\ pc' = "findpeptideDone"
    /\ UNCHANGED <<responses, rule, ruleOut, islandVars, findVars, args>>

NextFindpeptide == CallFindpeptide

SpecFindpeptide == InitFindpeptide /\ [][NextFindpeptide]_vars

FindpeptideCalled == pc = "findpeptideDone"
Occurs == StrFind(Ungap(args.seq), args.pep) # -1

\* C13 (as claimed): when pep does not occur in the ungapped seq, findpeptide
\* returns (-1, -1) and does not raise, also for a seq that begins with gaps.
C13_NotFoundGivesMinusOne ==
    (FindpeptideCalled /\ ~Occurs) =>
        (~ret.raised /\ ret.startPos = -1 /\ ret.endPos = -1)

\* C14: when a non-empty pep occurs in the ungapped seq, findpeptide returns
\* the gap-counting positions of the first occurrence: the slice without its
\* gaps is pep, it starts at the first residue of pep, and on an ungapped seq
\* the positions are (seq.find(pep), seq.find(pep) + len(pep)); the example
\* findpeptide("QKE", "KMQKEYALL") gives (2, 5).
C14_FoundPositions ==
    (FindpeptideCalled /\ Occurs /\ Len(args.pep) > 0) =>
        /\ ~ret.raised
        /\ 0 <= ret.startPos /\ ret.startPos < ret.endPos /\ ret.endPos <= Len(args.seq)
        /\ Ungap(SubSeq(args.seq, ret.startPos + 1, ret.endPos)) = args.pep
        /\ args.seq[ret.startPos + 1] = args.pep[1]
        /\ Len(Ungap(SubSeq(args.seq, 1, ret.startPos)))
              = StrFind(Ungap(args.seq), args.pep)
        /\ "-" \notin Range(args.seq) =>
              /\ ret.startPos = StrFind(args.seq, args.pep)
              /\ ret.endPos = StrFind(args.seq, args.pep) + Len(args.pep)
        /\ (args.pep = ExamplePep /\ "-" \notin Range(args.seq)) =>
              (ret.startPos = 2 /\ ret.endPos = 5)

\* a match behind a gap and across a gap
C14_Witness ==
    /\ FindpeptideCalled
    /\ Occurs
    /\ Len(args.pep) = 2
    /\ ~ret.raised
    /\ ret.startPos > StrFind(Ungap(args.seq), args.pep)
    /\ ret.endPos - ret.startPos > Len(args.pep)

-----------------------------------------------------------------------------
(* Claims about the assembled result *)

\* the surviving subsets that hold response i
SetsOf(i) == {k \in Survivors : i \in Survivor(k)}

RECURSIVE SumLen(_, _)
SumLen(exp, k) == IF k > Len(exp) THEN 0 ELSE Len(exp[k]) + SumLen(exp, k + 1)

\* C15: in pair-indexed mode the result has exactly one row per (surviving
\* subset, member response) pair, and a row has Floater = 1 iff its response
\* is a member of more than one surviving subset, Floater = 0 otherwise.
C15_PairRowsAndFloater ==
    pc = "pairIndexed" =>
        /\ Len(epitopes) = SumLen(expSharedSets, 1)
        /\ \A k \in Survivors : \A i \in Survivor(k) :
              Cardinality({r \in 1..Len(epitopes) :
                              /\ epitopes[r].EpID = EpLabel(k)
                              /\ epitopes[r].RespID = i}) = 1
        /\ \A r \in 1..Len(epitopes) :
              /\ epitopes[r].Floater \in {0, 1}
              /\ epitopes[r].Floater = 1 <=>
                    Cardinality(SetsOf(epitopes[r].RespID)) > 1

\* rows of a floater and of a response of one set only, side by side
C15_Witness ==
    /\ pc = "pairIndexed"
    /\ \E r, q \in 1..Len(epitopes) :
          /\ epitopes[r].Floater = 1
          /\ epitopes[q].Floater = 0
          /\ epitopes[r].EpID = epitopes[q].EpID
    /\ Len(epitopes) > Len(responses)

-----------------------------------------------------------------------------
(* unionCoords (120-129), alignPeptides (131-140), consensusPeptide (142-154) *)

\* largest number of responses in the island given to consensusPeptide
MaxConsResp == 3

\* unionCoords(island): the coordinates in ANY row, sorted; [] for no rows
unionCoords(island) ==
    IF Len(island) > 0
    THEN SortedSeq(UNION {Coords(island[i]) : i \in 1..Len(island)})
    ELSE <<>>

\* '-' * n
Gaps(n) == [k \in 1..n |-> "-"]

\* alignPeptides(island): every seq padded by the number of union coordinates
\* before its start and after its end - 1
alignPeptides(island) ==
    LET coords == Range(unionCoords(island))
    IN  [i \in 1..Len(island) |->
            Gaps(Cardinality({c \in coords : c < island[i].start}))
            \o island[i].seq
            \o Gaps(Cardinality({c \in coords : c > island[i].end - 1}))]

\* line 150: objhist of column aai, as the set of its keys and their counts
ColumnCount(align, aai, a) ==
    Cardinality({k \in 1..Len(align) : align[k][aai] = a})

\* lines 151-153: the keys max() can return; a tie is broken by the order of
\* the keys of the count, which the code does not fix
ColumnMax(align, aai) ==
    LET keys == {align[k][aai] : k \in 1..Len(align)}
        kept == IF Cardinality(keys) > 1 THEN keys \ {"-"} ELSE keys
    IN  {a \in kept : \A b \in kept : ColumnCount(align, aai, a) >= ColumnCount(align, aai, b)}

RECURSIVE ConsensusFrom(_, _, _)
ConsensusFrom(align, aai, L) ==
    IF aai > L THEN {<<>>}
    ELSE {<<a>> \o rest : a \in ColumnMax(align, aai),
                          rest \in ConsensusFrom(align, aai + 1, L)}

\* consensusPeptide(island): the strings it can return; the empty set stands
\* for the IndexError of align[0] (no rows) or of seq[aai] (line 150) on an
\* aligned seq shorter than the first one
consensusPeptide(island) ==
    LET align == alignPeptides(island)
    IN  IF Len(align) = 0 THEN {}
        ELSE IF \E k \in 1..Len(align) : Len(align[k]) < Len(align[1]) THEN {}
        ELSE ConsensusFrom(align, 1, Len(align[1]))

\* rows of one island: agreeing and disagreeing residues, a gapped seq, a row
\* at a shifted place, and a seq shorter than end - start
ConsensusPool ==
    { Row(0, 2, <<"A", "B">>), Row(0, 2, <<"B", "B">>), Row(0, 2, <<"A", "-">>),
      Row(1, 3, <<"B", "A">>), Row(0, 2, <<"A">>) }

InitConsensus ==
    /\ pc = "consensus"
    /\ responses \in SeqsUpTo(ConsensusPool, MaxConsResp)
    /\ IsIsland(responses)
    /\ args = [fn |-> "consensusPeptide"]
    /\ ret = NoArgs
    /\ rule = NoRule
    /\ ruleOut = NoOut
    /\ ri = 0
    /\ islandList = <<>>
    /\ islandColumn = <<>>
    /\ FindIdle

CallConsensusPeptide ==
    /\ pc = "consensus"
    /\ IF consensusPeptide(responses) = {}
       THEN ret' = [raised |-> TRUE, cons |-> <<>>]
       ELSE \E c \in consensusPeptide(responses) : ret' = [raised |-> FALSE, cons |-> c]
    /\ pc' = "consensusDone"
    /\ UNCHANGED <<responses, rule, ruleOut, islandVars, findVars, args>>

NextConsensus == CallConsensusPeptide

SpecConsensus == InitConsensus /\ [][NextConsensus]_vars

\* the characters of the aligned sequences in column c of the alignment; a
\* sequence that ends before it shows none
AlignedColumn(c) ==
    LET align == alignPeptides(responses)
    IN  [k \in {j \in 1..Len(align) : c <= Len(align[j])} |-> align[k][c]]

ResidueCount(c, a) ==
    Cardinality({k \in DOMAIN AlignedColumn(c) : AlignedColumn(c)[k] = a})

\* C17 (as claimed): consensusPeptide returns one character per column of the
\* island's alignment: a non-gap residue of maximal frequency among the
\* non-gap residues of the column, and '-' iff every aligned sequence has a
\* gap in the column.
C17_ConsensusPerColumn ==
    pc = "consensusDone" =>
        /\ ~ret.raised
        /\ \A k \in 1..Len(responses) :
              Len(alignPeptides(responses)[k]) <= Len(ret.cons)
        /\ \A c \in 1..Len(ret.cons) :
              LET col == AlignedColumn(c)
                  shown == {col[k] : k \in DOMAIN col}
              IN  /\ ret.cons[c] = "-" <=> shown = {"-"}
                  /\ ret.cons[c] # "-" =>
                        /\ ret.cons[c] \in shown
                        /\ \A b \in shown \ {"-"} :
                              ResidueCount(c, ret.cons[c]) >= ResidueCount(c, b)

-----------------------------------------------------------------------------
(* The pipeline: assignResponseIslands on a table of responses, then        *)
(* findEpitopes on the rows of each IslandID, one island after the other.   *)

\* the responses of the end-to-end scenario
Resp0 == Row(0, 9, <<"K", "M", "Q", "K", "E", "Y", "A", "L", "L">>)
Resp1 == Row(1, 10, <<"M", "Q", "K", "E", "Y", "A", "L", "L", "X">>)
Resp2 == Row(20, 29, <<"Z", "Z", "Z", "Z", "Z", "Z", "Z", "Z", "Z">>)
ScenarioRows == {Resp0, Resp1, Resp2}

\* a table whose one island makes every pass of the search remove a set
CrowdedTable ==
    << Row(0, 3, <<"A", "A", "B">>), Row(0, 3, <<"A", "B", "A">>),
       Row(0, 3, <<"B", "A", "A">>), Row(0, 2, <<"B", "C">>) >>

\* the rules the islands are searched with
PipelineRules == {IdenticalRuleArgs, OverlapRuleArgs(5, 4), OverlapRuleArgs(1, 1)}

\* the rows of the table that carry IslandID label, in table order
RECURSIVE IslandRows(_, _, _, _)
IslandRows(table, column, label, i) ==
    IF i > Len(table) THEN <<>>
    ELSE IF column[i] = label
         THEN <<table[i]>> \o IslandRows(table, column, label, i + 1)
         ELSE IslandRows(table, column, label, i + 1)

InitPipeline ==
    /\ pc = "islands"
    /\ responses \in Perms(ScenarioRows) \cup {CrowdedTable}
    /\ args = [fn |-> "pipeline", table |-> responses, island |-> <<"", 0>>,
               searched |-> {}]
    /\ ret = <<>>
    /\ ri = 1
    /\ islandList = <<>>
    /\ islandColumn = <<>>
    /\ rule = NoRule
    /\ ruleOut = NoOut
    /\ FindIdle

\* findEpitopes is called on the rows of an island not searched yet
SearchIsland ==
    /\ pc = "islandsDone"
    /\ args.fn = "pipeline"
    /\ \E label \in Range(islandColumn) \ args.searched :
          /\ responses' = IslandRows(args.table, islandColumn, label, 1)
          /\ args' = [args EXCEPT !.island = label]
    /\ rule' \in PipelineRules
    /\ reduceResponses' \in BOOLEAN
    /\ keepInds' = <<>>
    /\ redundantD' = <<>>
    /\ sharedSets' = <<>>
    /\ acceptedSets' = <<>>
    /\ expSharedSets' = <<>>
    /\ epitopes' = <<>>
    /\ pc' = "find"
    /\ UNCHANGED <<ruleOut, islandVars, ret>>

\* the DataFrame returned for the island is kept under its IslandID
CollectEpitopes ==
    /\ pc \in {"responseIndexed", "pairIndexed"}
    /\ args.fn = "pipeline"
    /\ ret' = (args.island :> epitopes) @@ ret
    /\ args' = [args EXCEPT !.searched = @ \cup {args.island}]
    /\ pc' = "islandsDone"
    /\ UNCHANGED <<responses, rule, ruleOut, islandVars, findVars>>

NextPipeline ==
    \/ ProcessResponse \/ ReturnIslandColumn \/ SearchIsland
    \/ Reduce \/ Filter \/ RemoveSubset \/ RemoveCovered \/ Expand
    \/ AssembleResponseIndexed \/ AssemblePairIndexed \/ CollectEpitopes

SpecPipeline == InitPipeline /\ [][NextPipeline]_vars

\* the table is the scenario's, in some order
ScenarioTable == args.fn = "pipeline" /\ Range(args.table) = ScenarioRows

\* position of a scenario response in the table
PosOf(r) == CHOOSE i \in 1..Len(args.table) : args.table[i] = r

Assembled == pc \in {"responseIndexed", "pairIndexed"}

\* C18: on the scenario's three responses assignResponseIslands yields the
\* islands {resp0, resp1} and {resp2}; findEpitopes with overlapRule(5, 4) on
\* the first yields exactly one epitope, EpSeq "MQKEYALL" over the shared
\* coordinates 1..9, and with identicalRule on the second exactly one epitope
\* with EpSeq "ZZZZZZZZZ".
C18_EndToEnd ==
    ScenarioTable =>
        /\ pc # "islands" =>
              /\ islandColumn[PosOf(Resp0)] = islandColumn[PosOf(Resp1)]
              /\ islandColumn[PosOf(Resp2)] # islandColumn[PosOf(Resp0)]
        /\ (Assembled /\ Range(responses) = {Resp0, Resp1}
                      /\ rule = OverlapRuleArgs(5, 4)) =>
              /\ Len(expSharedSets) = 1
              /\ Range(expSharedSets[1]) = {1, 2}
              /\ Len(epitopes) = 2
              /\ \A r \in 1..Len(epitopes) :
                    /\ epitopes[r].EpID = EpLabel(1)
                    /\ epitopes[r].EpSeq = <<"M", "Q", "K", "E", "Y", "A", "L", "L">>
                    /\ epitopes[r].EpStart = 1
                    /\ epitopes[r].EpEnd = 9
        /\ (Assembled /\ Range(responses) = {Resp2} /\ rule = IdenticalRuleArgs) =>
              /\ Len(expSharedSets) = 1
              /\ Len(epitopes) = 1
              /\ epitopes[1].EpID = EpLabel(1)
              /\ epitopes[1].EpSeq = Resp2.seq

\* both islands of the scenario searched as the scenario says
C18_Witness ==
    /\ ScenarioTable
    /\ pc = "islandsDone"
    /\ args.searched = Range(islandColumn)
    /\ Cardinality(args.searched) = 2
    /\ \A l \in args.searched : Len(ret[l]) >= 1
    /\ Len(ret[islandColumn[PosOf(Resp0)]]) = 2
    /\ ret[islandColumn[PosOf(Resp0)]][1].EpEnd = 9
    /\ ret[islandColumn[PosOf(Resp2)]][1].EpStart = 20

-----------------------------------------------------------------------------
(* Claims about the eliminations and the reduction *)

\* the positions held by some set of a list of sets
UnionOf(sets) == UNION {Range(sets[k]) : k \in 1..Len(sets)}

\* C19: the two elimination passes never uncover a response: after the
\* filter, after every single removal and at the fixed point the union of the
\* surviving subsets is the union of the subsets the predicate accepted.
C19_EliminationKeepsUnion ==
    pc \in {"subsets", "expanded", "responseIndexed", "pairIndexed"} =>
        UnionOf(sharedSets) = UnionOf(acceptedSets)

\* a set that was in no other set has just been removed as covered
C19_Witness ==
    /\ pc = "subsets"
    /\ NextSubset(sharedSets, acceptedSets) = 0
    /\ \E j \in 1..Len(acceptedSets) :
          /\ acceptedSets[j] \notin Range(sharedSets)
          /\ \A h \in 1..Len(acceptedSets) :
                h # j => ~(Range(acceptedSets[j]) \subseteq Range(acceptedSets[h]))
    /\ Len(sharedSets) >= 2

\* the first response in input order with the (start, end) of response i
FirstWithCoords(i) ==
    CHOOSE j \in 1..Len(responses) :
        /\ responses[j].start = responses[i].start
        /\ responses[j].end = responses[i].end
        /\ \A h \in 1..(j - 1) : \/ responses[h].start # responses[i].start
                                 \/ responses[h].end # responses[i].end

\* C20: with reduceResponses the responses kept for the search are the first
\* response in input order of each (start, end) pair, in input order, and after
\* re-expansion each surviving subset holds a response exactly when it holds
\* the first response with the same (start, end).
C20_FirstRepresentativeSameSets ==
    (reduceResponses /\ pc \in {"enumerate", "subsets", "expanded",
                               "responseIndexed", "pairIndexed", "raised"}) =>
        /\ Range(keepInds) = {FirstWithCoords(i) : i \in 1..Len(responses)}
        /\ \A a, b \in 1..Len(keepInds) : a < b => keepInds[a] < keepInds[b]
        /\ pc \in {"expanded", "responseIndexed", "pairIndexed"} =>
              /\ Len(expSharedSets) = Len(sharedSets)
              /\ \A k \in 1..Len(expSharedSets) :
                    /\ \A i \in 1..Len(responses) :
                          i \in Range(expSharedSets[k])
                              <=> FirstWithCoords(i) \in Range(expSharedSets[k])
                    /\ {FirstWithCoords(i) : i \in Range(expSharedSets[k])}
                          = {keepInds[sharedSets[k][m]] : m \in 1..Len(sharedSets[k])}

\* a duplicate has been put back next to its representative, which is in one
\* surviving subset and not in another
C20_Witness ==
    /\ reduceResponses
    /\ pc = "expanded"
    /\ \E i \in 1..Len(responses), k, h \in 1..Len(expSharedSets) :
          /\ FirstWithCoords(i) # i
          /\ i \in Range(expSharedSets[k])
          /\ i \notin Range(expSharedSets[h])

-----------------------------------------------------------------------------
(* Claims about the descriptors of the surviving subsets *)

\* the assembly has run (to its end or to an exception of sharedRule)
AssemblyRan == pc \in {"responseIndexed", "pairIndexed", "raised"}

\* the entries of epitopes that carry the EpID of set k
LabelledBy(k) ==
    {i \in 1..Len(epitopes) : epitopes[i] # None /\ epitopes[i].EpID = EpLabel(k)}

\* C21: for every surviving subset the non-floater member set (the members in
\* no other surviving subset) is not empty, the predicate accepts exactly that
\* set, and every entry of the result that carries the subset's EpID has the
\* descriptor the predicate returns for it.
C21_DescriptorFromNonFloaters ==
    AssemblyRan =>
        \A k \in 1..Len(expSharedSets) :
            LET uinds == UniqueInds(expSharedSets, k, 1)
                out == ApplyRule(rule, responses, uinds)
            IN  /\ uinds # <<>>
                /\ ~out.raised
                /\ out.accepted
                /\ pc = "responseIndexed" =>
                      \A i \in LabelledBy(k) :
                          /\ i \in Range(expSharedSets[k])
                          /\ epitopes[i] = [EpID |-> EpLabel(k)] @@ out.ep
                /\ pc = "pairIndexed" =>
                      \A i \in LabelledBy(k) :
                          /\ epitopes[i].RespID \in Range(expSharedSets[k])
                          /\ [f \in DOMAIN epitopes[i] \ {"RespID", "Floater"}
                                |-> epitopes[i][f]]
                               = [EpID |-> EpLabel(k)] @@ out.ep

\* C21 without the verdict of the predicate: the non-floater member set is
\* not empty
C21_NonFloatersNotEmpty ==
    AssemblyRan =>
        \A k \in 1..Len(expSharedSets) : UniqueInds(expSharedSets, k, 1) # <<>>

\* C21 for the rules of the repository, without reduction
C21_RepositoryRules ==
    (~reduceResponses /\ rule.kind # "tableRule") => C21_DescriptorFromNonFloaters

-----------------------------------------------------------------------------
(* realignPeptides (lines 906-1016)                                         *)
(* The alignment file is the list of its sequences in file order; minL=None *)
(* is exact = TRUE. One row of the result is a record of the columns.       *)

\* largest length of a peptide given to realignPeptides
MaxRealignLen == 3

\* s[a:b] of Python, for any integers a and b
PySlice(s, a, b) ==
    LET n == Len(s)
        lo == IF a < 0 THEN (IF a + n < 0 THEN 0 ELSE a + n)
              ELSE (IF a > n THEN n ELSE a)
        hi == IF b < 0 THEN (IF b + n < 0 THEN 0 ELSE b + n)
              ELSE (IF b > n THEN n ELSE b)
    IN  SubSeq(s, lo + 1, hi)

\* s[i] of Python is an IndexError
PyIndexRaises(s, i) == i >= Len(s) \/ i < 0 - Len(s)

\* s[i] of Python, a negative i counting from the end
PyIndex(s, i) == IF i < 0 THEN s[i + Len(s) + 1] ELSE s[i + 1]

\* lines 951-962: the residues after the matched part are added to core;
\* afteri always equals add
RECURSIVE AfterLoop(_, _, _, _, _, _)
AfterLoop(s, endPos, add, endAdd, core, afterCore) ==
    IF add >= endAdd THEN [raised |-> FALSE, endPos |-> endPos, core |-> core]
    ELSE IF PyIndexRaises(s, endPos)
    THEN [raised |-> TRUE, endPos |-> endPos, core |-> core]
    ELSE IF PyIndex(s, endPos) # "-"
    THEN AfterLoop(s, endPos + 1, add + 1, endAdd,
                   Append(core, afterCore[add + 1]), afterCore)
    ELSE AfterLoop(s, endPos + 1, add, endAdd, Append(core, "-"), afterCore)

\* lines 964-973: the residues before the matched part are added to core;
\* beforei always equals add
RECURSIVE BeforeLoop(_, _, _, _, _, _)
BeforeLoop(s, startPos, add, pos, core, beforeCore) ==
    IF add >= pos THEN [raised |-> FALSE, startPos |-> startPos, core |-> core]
    ELSE IF PyIndexRaises(s, startPos - 1)
    THEN [raised |-> TRUE, startPos |-> startPos, core |-> core]
    ELSE IF PyIndex(s, startPos - 1) # "-"
    THEN BeforeLoop(s, startPos - 1, add + 1, pos,
                    <<beforeCore[pos - add]>> \o core, beforeCore)
    ELSE BeforeLoop(s, startPos - 1, add, pos, <<"-">> \o core, beforeCore)

\* lines 940-976: the loop over the sequences from sequence j on;
\* acc = [raised, names, startPos, endPos, gapped, core, matched].
\* FoundIn is the body for a sequence s in which findpeptide returned f with
\* a start that is not negative.
Extended(s, f, a, b, j, acc) ==
    IF a.raised \/ b.raised THEN [acc EXCEPT !.raised = TRUE]
    ELSE [raised |-> FALSE,
          names |-> Append(acc.names, j),
          startPos |-> b.startPos,
          endPos |-> a.endPos,
          gapped |-> f.pepOut,
          core |-> b.core,
          matched |-> PySlice(s, b.startPos, a.endPos)]

ExtendBefore(s, f, a, origPep, pos, j, acc) ==
    Extended(s, f, a,
             BeforeLoop(s, f.startPos, 0, pos, a.core, PySlice(origPep, 0, pos)),
             j, acc)

FoundIn(s, f, origPep, pos, L, j, acc) ==
    ExtendBefore(s, f,
                 AfterLoop(s, f.endPos, 0, Len(origPep) - (pos + L), f.pepOut,
                           PySlice(origPep, pos + L, Len(origPep))),
                 origPep, pos, j, acc)

SearchedIn(s, f, origPep, pos, L, j, acc) ==
    IF f.raised THEN [acc EXCEPT !.raised = TRUE]
    ELSE IF f.startPos < 0 THEN acc
    ELSE FoundIn(s, f, origPep, pos, L, j, acc)

RECURSIVE FindOneLoop(_, _, _, _, _, _, _)
FindOneLoop(seqs, j, origPep, pep, pos, L, acc) ==
    IF j > Len(seqs) \/ acc.raised THEN acc
    ELSE FindOneLoop(seqs, j + 1, origPep, pep, pos, L,
            SearchedIn(seqs[j], findpeptide(pep, seqs[j]), origPep, pos, L, j, acc))

\* lines 977-994: the columns of the Series returned
OutSeries(acc, origPep, pep, pos, L) ==
    [raised |-> acc.raised,
     alignStart |-> acc.startPos,
     alignEnd |-> acc.endPos,
     alignSubseq |-> acc.gapped,
     alignSeq |-> IF acc.startPos = -1 THEN <<>> ELSE acc.matched,
     realignSeq |-> IF acc.startPos = -1 THEN <<>> ELSE acc.core,
     matchedSubseq |-> IF acc.startPos = -1 THEN <<>> ELSE pep,
     seq |-> origPep,
     subpos |-> pos,
     subL |-> L,
     alignSeqs |-> acc.names]

FindOneOf(seqs, origPep, pep, pos, L) ==
    OutSeries(FindOneLoop(seqs, 1, origPep, pep, pos, L,
                  [raised |-> FALSE, names |-> <<>>, startPos |-> -1,
                   endPos |-> -1, gapped |-> <<>>, core |-> <<>>, matched |-> <<>>]),
              origPep, pep, pos, L)

\* lines 929-994: _findOne(pep, pos, L)
findOne(seqs, origPep, pos, L) ==
    FindOneOf(seqs, origPep, PySlice(origPep, pos, pos + L), pos, L)

\* lines 1000-1007: where the loops over k and pos, resumed at (k, pos) with
\* align start of out being start, next call _findOne; k = 0 when they end
\* without another call
RECURSIVE NextCall(_, _, _, _, _)
NextCall(n, minL, k, pos, start) ==
    IF k <= minL THEN [k |-> 0, pos |-> 0]
    ELSE IF pos >= n - k + 1 \/ start >= 0
    THEN IF start > 0 THEN [k |-> 0, pos |-> 0]
         ELSE NextCall(n, minL, k - 1, 0, start)
    ELSE [k |-> k, pos |-> pos]

\* a second peptide of the collection and a second sequence of the alignment
SecondPeptide == <<"A", "B">>
SecondSeq == <<"B", "-", "A">>

\* ret while realignPeptides runs: resL and, per peptide, the (pos, L) of the
\* calls of _findOne; i, k, pos and out are the loop variables
InitRealign ==
    /\ pc = "realign"
    /\ \E pep \in SeqsUpTo(Residues, MaxRealignLen) \ {<<>>} :
       \E s \in SeqsUpTo(Residues \cup {"-"}, MaxSeqLen) :
       \E more \in BOOLEAN, two \in BOOLEAN, exact \in BOOLEAN,
          minL \in 0..MaxRealignLen :
          /\ exact => minL = 0
          /\ args = [fn |-> "realignPeptides",
                     peptides |-> IF more THEN <<pep, SecondPeptide>> ELSE <<pep>>,
                     seqs |-> IF two THEN <<s, SecondSeq>> ELSE <<s>>,
                     exact |-> exact,
                     minL |-> minL]
    /\ ret = [fn |-> "realignPeptides", resL |-> <<>>, calls |-> <<>>,
              i |-> 1, k |-> 0, pos |-> 0, out |-> <<>>]
    /\ responses = <<>>
    /\ rule = NoRule
    /\ ruleOut = NoOut
    /\ ri = 0
    /\ islandList = <<>>
    /\ islandColumn = <<>>
    /\ FindIdle

\* line 1008: resL.append(out), and the next peptide
AppendRow(out) ==
    /\ ret' = [ret EXCEPT !.resL = Append(@, out), !.i = @ + 1,
                          !.k = 0, !.pos = 0, !.out = <<>>]
    /\ pc' = IF ret.i + 1 > Len(args.peptides) THEN "realignDone" ELSE "realign"

\* lines 998-999 after out = _findOne(pep)
AfterWhole(pep, out, called) ==
    IF out.raised
    THEN ret' = called /\ pc' = "realignRaised"
    ELSE IF args.exact
    THEN /\ ret' = [called EXCEPT !.resL = Append(@, out), !.i = @ + 1]
         /\ pc' = IF ret.i + 1 > Len(args.peptides)
                  THEN "realignDone" ELSE "realign"
    ELSE /\ ret' = [called EXCEPT !.k = Len(pep), !.pos = 0, !.out = out]
         /\ pc' = "kmers"

\* lines 997-999: out = _findOne(pep) for the next peptide
FindWhole ==
    /\ pc = "realign"
    /\ AfterWhole(args.peptides[ret.i],
                  findOne(args.seqs, args.peptides[ret.i], 0,
                          Len(args.peptides[ret.i])),
                  [ret EXCEPT !.calls =
                      Append(@, << <<0, Len(args.peptides[ret.i])>> >>)])
    /\ UNCHANGED <<responses, rule, ruleOut, islandVars, findVars, args>>

\* line 1003 after out = _findOne(pep, pos=pos, L=k)
AfterKmer(c, out) ==
    /\ ret' = [ret EXCEPT !.calls[ret.i] = Append(@, <<c.pos, c.k>>),
                          !.k = c.k, !.pos = c.pos + 1, !.out = out]
    /\ pc' = IF out.raised THEN "realignRaised" ELSE "kmers"

\* the call of _findOne at c
CallAt(c) ==
    /\ c.k # 0
    /\ AfterKmer(c, findOne(args.seqs, args.peptides[ret.i], c.pos, c.k))

\* lines 1000-1007: the loops run on to their next call of _findOne
FindKmer ==
    /\ pc = "kmers"
    /\ CallAt(NextCall(Len(args.peptides[ret.i]), args.minL, ret.k, ret.pos,
                       ret.out.alignStart))
    /\ UNCHANGED <<responses, rule, ruleOut, islandVars, findVars, args>>

\* lines 1000-1008: the loops end and the row is appended
EndKmers ==
    /\ pc = "kmers"
    /\ NextCall(Len(args.peptides[ret.i]), args.minL, ret.k, ret.pos,
                ret.out.alignStart).k = 0
    /\ AppendRow(ret.out)
    /\ UNCHANGED <<responses, rule, ruleOut, islandVars, findVars, args>>

NextRealign == FindWhole \/ FindKmer \/ EndKmers

SpecRealign == InitRealign /\ [][NextRealign]_vars

\* pep occurs in a sequence of the alignment, gaps ignored
OccursInAlignment(pep) ==
    \E j \in 1..Len(args.seqs) : StrFind(Ungap(args.seqs[j]), pep) # -1

\* the (pos, L) of the substrings of pep of the lengths from k down to lo,
\* longest first and left to right
RECURSIVE SubstringsFrom(_, _, _)
SubstringsFrom(pep, k, lo) ==
    IF k < lo \/ k < 1 THEN <<>>
    ELSE [p \in 1..(Len(pep) - k + 1) |-> <<p - 1, k>>]
         \o SubstringsFrom(pep, k - 1, lo)

\* the part of tries up to its first substring that occurs, all of it if none does
UpToFirstFound(pep, tries) ==
    LET found == {n \in 1..Len(tries) :
                    OccursInAlignment(PySlice(pep, tries[n][1], tries[n][1] + tries[n][2]))}
    IN  IF found = {} THEN tries
        ELSE SubSeq(tries, 1, CHOOSE n \in found : \A m \in found : n <= m)

\* the calls of _findOne for a part of the peptide
RECURSIVE ProperCalls(_, _)
ProperCalls(calls, n) ==
    IF calls = <<>> THEN <<>>
    ELSE IF Head(calls)[2] < n THEN <<Head(calls)>> \o ProperCalls(Tail(calls), n)
    ELSE ProperCalls(Tail(calls), n)

\* C22: for a peptide not found whole in any sequence of the alignment (minL
\* not None) the substrings tried are those of the lengths len(pep) - 1 down to
\* minL, longest first and left to right, up to the first one found, and align
\* start is -1 only when no substring of at least minL residues occurs in a
\* sequence of the alignment.
C22_FallbackDownToMinL ==
    (pc = "realignDone" /\ ~args.exact) =>
        \A i \in 1..Len(args.peptides) :
            LET pep == args.peptides[i]
            IN  ~OccursInAlignment(pep) =>
                  /\ ProperCalls(ret.calls[i], Len(pep))
                       = UpToFirstFound(pep,
                            SubstringsFrom(pep, Len(pep) - 1, args.minL))
                  /\ ret.resL[i].alignStart = -1 =>
                        \A n \in 1..Len(SubstringsFrom(pep, Len(pep), args.minL)) :
                            LET t == SubstringsFrom(pep, Len(pep), args.minL)[n]
                            IN  ~OccursInAlignment(PySlice(pep, t[1], t[1] + t[2]))

-----------------------------------------------------------------------------
(* Soundness of the island labels *)

\* the island numbers that label a response
LabelsUsed ==
    {k \in 1..Len(responses) : \E i \in 1..Len(responses) : islandColumn[i] = IslandLabel(k)}

\* C23: two responses with the same IslandID are on the same protein and
\* connected by a chain of pairwise overlap() through responses of the input,
\* and the island numbers that label a response are I0 up to the highest one,
\* none left out.
C23_IslandLabelsSound ==
    pc = "islandsDone" =>
        /\ \A i, j \in 1..Len(responses) :
              islandColumn[i] = islandColumn[j] =>
                  /\ responses[i].protein = responses[j].protein
                  /\ Connected(i, j, responses)
        /\ \A i \in 1..Len(responses) :
              \E k \in LabelsUsed : islandColumn[i] = IslandLabel(k)
        /\ \A k \in LabelsUsed : \A h \in 1..k : h \in LabelsUsed

\* two responses that do not overlap each other share an IslandID through a
\* third that overlaps both
C23_Witness ==
    /\ pc = "islandsDone"
    /\ \E i, j \in 1..Len(responses) :
          /\ i # j
          /\ islandColumn[i] = islandColumn[j]
          /\ ~overlap(responses[i], responses[j])
          /\ \E m \in 1..Len(responses) :
                /\ overlap(responses[i], responses[m])
                /\ overlap(responses[m], responses[j])

-----------------------------------------------------------------------------
(* findEpitopes with and without the reduction of lines 189-210             *)

\* rows of one protein at three places that overlap each other
PairPool ==
    { Row(0, 3, <<"A", "A", "B">>), Row(1, 4, <<"A", "A", "B">>),
      Row(2, 5, <<"A", "A", "B">>) }

\* the sets of (start, end) pairs a subset of the island can have
PairSets == (SUBSET {<<0, 3>>, <<1, 4>>, <<2, 5>>}) \ {{}}

\* findEpitopes is called on an island with repeated (start, end) pairs under
\* a predicate of the pairs that accepts every single response
InitReduction ==
    /\ pc = "find"
    /\ responses \in SeqsUpTo(PairPool, MaxFindResp)
    /\ IsIsland(responses)
    /\ \E t \in SUBSET PairSets :
          /\ \A ps \in PairSets : Cardinality(ps) = 1 => ps \in t
          /\ rule = CoordsRuleArgs(t)
    /\ reduceResponses \in BOOLEAN
    /\ keepInds = <<>>
    /\ redundantD = <<>>
    /\ sharedSets = <<>>
    /\ acceptedSets = <<>>
    /\ expSharedSets = <<>>
    /\ epitopes = <<>>
    /\ ruleOut = NoOut
    /\ ri = 0
    /\ islandList = <<>>
    /\ islandColumn = <<>>
    /\ CallIdle

SpecReduction == InitReduction /\ [][Next]_vars

\* lines 223-229: the product loop run to its end
RECURSIVE EliminateSubsets(_, _)
EliminateSubsets(sets, copy) ==
    IF NextSubset(sets, copy) = 0 THEN sets
    ELSE EliminateSubsets(RemoveAt(sets, NextSubset(sets, copy)), copy)

\* lines 234-253: the while loop run to its end
RECURSIVE EliminateCovered(_)
EliminateCovered(sets) ==
    IF NextCovered(sets) = 0 THEN sets
    ELSE EliminateCovered(RemoveAt(sets, NextCovered(sets)))

\* lines 254-265 for the sets the search leaves
ExpandedSets(acc, reduce, st) ==
    ExpandAll(EliminateCovered(EliminateSubsets(acc, acc)), reduce,
              st.keepInds, st.redundantD)

\* lines 212-265 after the reduction st
SearchAfter(resps, r, reduce, st) ==
    ExpandedSets(FilterShared(r, resps, reduce, st.keepInds), reduce, st)

\* lines 189-265: expSharedSets of findEpitopes(resps, r, reduceResponses=reduce)
SearchSets(resps, r, reduce) ==
    SearchAfter(resps, r, reduce,
                ReduceLoop(resps, 1,
                           [coords |-> <<>>, keepInds |-> <<>>, redundantD |-> <<>>]))

\* a list of index lists as a family of sets
Family(sets) == {Range(sets[k]) : k \in 1..Len(sets)}

\* the while loop of lines 234-253 removed no set in this run
NothingCovered ==
    Len(sharedSets) = Len(EliminateSubsets(acceptedSets, acceptedSets))

\* C24 (as claimed): under a predicate of the set of distinct (start, end)
\* pairs, findEpitopes returns the same family of surviving response-index
\* subsets with reduceResponses=True as with reduceResponses=False.
C24_ReductionSameFamily ==
    (pc = "expanded" /\ rule.kind = "coordsRule") =>
        Family(expSharedSets) = Family(SearchSets(responses, rule, ~reduceResponses))

\* C24 (amended): the two families are the same whenever the
\* coverage-redundancy elimination removes no subset.
C24_SameFamilyWhenNothingCovered ==
    (pc = "expanded" /\ rule.kind = "coordsRule" /\ NothingCovered) =>
        Family(expSharedSets) = Family(SearchSets(responses, rule, ~reduceResponses))

\* a search with reduction over an island with a repeated (start, end) pair
\* that ends with two subsets, none removed as covered
C24_Witness ==
    /\ pc = "expanded"
    /\ rule.kind = "coordsRule"
    /\ reduceResponses
    /\ Len(keepInds) < Len(responses)
    /\ NothingCovered
    /\ Len(expSharedSets) >= 2

=============================================================================
